---------------------------- MODULE Spec2Model ----------------------------
(***************************************************************************)
(* Model of src/bottleneck_calculator.py: the prefill and decode roofline  *)
(* calculators, the constant derivation and the command-line runner.       *)
(*                                                                         *)
(* Numbers.  Python floats are modelled as exact rationals <<n, d>> in     *)
(* lowest terms with d > 0, extended with float('inf') = <<1, 0>>.  A      *)
(* ZeroDivisionError is the value <<0, 0>>, which every arithmetic         *)
(* operator propagates and no comparison accepts, so that an operation     *)
(* "raised" exactly when a division it reached had a zero denominator.     *)
(* Binary rounding error of IEEE doubles is not modelled.  The pcie_stats   *)
(* lookup of derive_constants_from_results is computed and never used by   *)
(* the code, so --offload-dir has no effect on the state.                  *)
(***************************************************************************)
EXTENDS Integers, Sequences, FiniteSets, TLC

(* ------------------------------ bounds -------------------------------- *)
\* largest token count N / L drawn for the calculators
MaxN == 2
\* rates R, T, W are drawn from {k / RateDen : k \in 0..MaxRate}
MaxRate == 3
\* offload fractions are drawn from {k / AlphaDen : k \in 0..AlphaDen}
AlphaDen == 4
\* denominator of the drawn rates
RateDen == 2

\* command-line token counts --N / --L are drawn from 0..MaxArgN
MaxArgN == 1
\* command-line rates --R / --T are drawn from 0..MaxArgRate
MaxArgRate == 1
\* command-line --alpha is drawn from {k / ArgAlphaDen : k \in 0..ArgAlphaDen+1}
ArgAlphaDen == 2
\* a metrics CSV holds at most MaxRows rows
MaxRows == 1
\* largest prompt_len in a metrics CSV row
MaxPromptLen == 3

(* ----------------------------- rationals ------------------------------ *)
Abs(n) == IF n < 0 THEN -n ELSE n

RECURSIVE GCD(_, _)
GCD(a, b) == IF b = 0 THEN a ELSE GCD(b, a % b)

\* float('inf')
Inf == <<1, 0>>
\* the outcome of a division by zero (ZeroDivisionError raised)
ZeroDivisionError == <<0, 0>>

Norm(n, d) == LET g == GCD(Abs(n), d) IN <<n \div g, d \div g>>
Rat(n, d) == Norm(n, d)
Whole(n) == <<n, 1>>
Zero == <<0, 1>>
One == <<1, 1>>

IsFinite(x) == x[2] > 0

\* a <= b, a < b on finite values and +inf (False once an operand raised)
Leq(a, b) ==
    /\ a # ZeroDivisionError /\ b # ZeroDivisionError
    /\ a[1] * b[2] <= b[1] * a[2]
Lt(a, b) == Leq(a, b) /\ a # b
Gt(a, b) == Lt(b, a)

Add(a, b) ==
    IF a = ZeroDivisionError \/ b = ZeroDivisionError THEN ZeroDivisionError
    ELSE IF a = Inf \/ b = Inf THEN Inf
    ELSE Norm(a[1] * b[2] + b[1] * a[2], a[2] * b[2])
Neg(a) == IF IsFinite(a) THEN <<-a[1], a[2]>> ELSE a
Sub(a, b) == Add(a, Neg(b))
Mul(a, b) ==
    IF a = ZeroDivisionError \/ b = ZeroDivisionError THEN ZeroDivisionError
    ELSE IF a = Inf \/ b = Inf THEN Inf
    ELSE Norm(a[1] * b[1], a[2] * b[2])
\* Python's a / b on floats: raises when b == 0
Div(a, b) ==
    IF a = ZeroDivisionError \/ b = ZeroDivisionError THEN ZeroDivisionError
    ELSE IF b = Zero THEN ZeroDivisionError
    ELSE IF b = Inf THEN Zero
    ELSE IF a = Inf THEN Inf
    ELSE IF b[1] < 0 THEN Norm(-(a[1] * b[2]), a[2] * (-b[1]))
    ELSE Norm(a[1] * b[2], a[2] * b[1])

\* Python's max(a, b): the first of the largest
Max2(a, b) == IF Gt(b, a) THEN b ELSE a
Max3(a, b, c) == Max2(Max2(a, b), c)

\* round(x, 2) / the ".1%" format: round half to even at 1/scale
RoundTo(x, scale) ==
    IF ~IsFinite(x) THEN x
    ELSE LET n == x[1] * scale
             d == x[2]
             q == n \div d
             r == n - q * d
             k == IF 2 * r < d THEN q
                  ELSE IF 2 * r > d THEN q + 1
                  ELSE IF q % 2 = 0 THEN q ELSE q + 1
         IN  Norm(k, scale)
Round2(x) == RoundTo(x, 100)
\* f"{x:.1%}": the percentage with one decimal, kept as a number
Pct1(x) == RoundTo(Mul(x, Whole(100)), 10)

\* Python's None where a number is expected
None == <<>>

(* ------------------- PrefillSpeedupCalculator ------------------------- *)
PrefillSpeedupCalculator(N, R, T, alpha, W) ==
    [N |-> N, R |-> R, T |-> T, alpha |-> alpha,
     W |-> IF W # None THEN W ELSE Zero,
     E |-> Zero, alpha_star |-> Zero,
     ttft_vanilla |-> Zero, ttft_offloaded |-> Zero]

\* mutants of EfficiencyRatio: the R > 0 guard dropped; the ratio inverted
EfficiencyRatio_Unguarded(self) == Div(self.T, self.R)
EfficiencyRatio_Inverted(self) ==
    IF Gt(self.R, Zero) THEN Div(self.R, self.T) ELSE Inf

\* self.E
EfficiencyRatio(self) ==
    IF Gt(self.R, Zero) THEN Div(self.T, self.R) ELSE Inf

\* mutant of CriticalFraction: E used without the 1 + E normalisation
CriticalFraction_Unnormalised(E) == IF E # Inf THEN E ELSE One

\* self.alpha_star
CriticalFraction(E) ==
    IF E # Inf THEN Div(E, Add(One, E)) ELSE One

\* mutants of TtftOffloaded: the three costs added instead of overlapped;
\* the retrieval cost left out of the maximum
TtftOffloaded_Sum(self) ==
    Add(Add(Mul(Mul(self.alpha, self.N), self.R),
            Mul(Mul(Sub(One, self.alpha), self.N), self.T)),
        Mul(Mul(Sub(One, self.alpha), self.N), self.W))
TtftOffloaded_NoRetrieval(self) ==
    Max2(Mul(Mul(Sub(One, self.alpha), self.N), self.T),
         Mul(Mul(Sub(One, self.alpha), self.N), self.W))

\* self.ttft_offloaded
TtftOffloaded(self) ==
    LET retrieval_cost == Mul(Mul(self.alpha, self.N), self.R)
        compute_cost == Mul(Mul(Sub(One, self.alpha), self.N), self.T)
        write_cost == Mul(Mul(Sub(One, self.alpha), self.N), self.W)
    IN  Max3(retrieval_cost, compute_cost, write_cost)

\* the object after calculate_metrics()
calculate_metrics(self) ==
    LET E == EfficiencyRatio(self)
    IN  [self EXCEPT !.E = E,
                     !.alpha_star = CriticalFraction(E),
                     !.ttft_vanilla = Mul(self.N, self.T),
                     !.ttft_offloaded = TtftOffloaded(self)]

\* the dict calculate_metrics() returns, read off the updated object
MetricsDict(m) ==
    [done |-> TRUE, E |-> m.E, alpha_star |-> m.alpha_star,
     ttft_vanilla |-> m.ttft_vanilla, ttft_offloaded |-> m.ttft_offloaded]

\* mutant of SpeedupActual: the ratio inverted (offloaded over vanilla)
SpeedupActual_Inverted(m) ==
    IF Gt(m.ttft_offloaded, Zero)
    THEN Div(m.ttft_offloaded, m.ttft_vanilla)
    ELSE Inf

\* speedup_actual
SpeedupActual(m) ==
    IF Gt(m.ttft_offloaded, Zero)
    THEN Div(m.ttft_vanilla, m.ttft_offloaded)
    ELSE Inf

\* mutant of PrefillComputeBound: the boundary alpha = alpha* excluded
PrefillComputeBound_Strict(m) == Lt(m.alpha, m.alpha_star)

\* self.alpha <= self.alpha_star
PrefillComputeBound(m) == Leq(m.alpha, m.alpha_star)

\* mutant of SpeedupTheoretical: the I/O-bound ratio E not divided by alpha
SpeedupTheoretical_NoAlpha(m) ==
    IF PrefillComputeBound(m)
    THEN IF Gt(Sub(One, m.alpha), Zero)
         THEN Div(One, Sub(One, m.alpha))
         ELSE Inf
    ELSE IF Gt(m.alpha, Zero) THEN m.E ELSE Zero

\* speedup_theoretical
SpeedupTheoretical(m) ==
    IF PrefillComputeBound(m)
    THEN IF Gt(Sub(One, m.alpha), Zero)
         THEN Div(One, Sub(One, m.alpha))
         ELSE Inf
    ELSE IF Gt(m.alpha, Zero) THEN Div(m.E, m.alpha) ELSE Zero

\* analyze_speedup(): the object it leaves (self), the dict it returns (ret),
\* its locals before rounding, and whether a division raised
analyze_speedup(self0) ==
    LET m == calculate_metrics(self0)
        speedup_actual == SpeedupActual(m)
        speedup_theoretical == SpeedupTheoretical(m)
        compute == PrefillComputeBound(m)
    IN  [self |-> m,
         raised |-> ZeroDivisionError \in
                      {m.E, m.alpha_star, speedup_actual, speedup_theoretical},
         speedup_actual |-> speedup_actual,
         speedup_theoretical |-> speedup_theoretical,
         max_potential_gain |-> IF compute THEN None ELSE Add(m.E, One),
         ret |-> [Phase |-> "PREFILL",
                  Regime |-> IF compute THEN "Compute-Bound" ELSE "I/O-Bound",
                  Metric |-> "Speedup",
                  Actual |-> Round2(speedup_actual),
                  Theoretical |-> Round2(speedup_theoretical),
                  AlphaCurrent |-> Pct1(m.alpha),
                  AlphaStar |-> Pct1(m.alpha_star)]]

(* -------------------- DecodeSpeedupCalculator ------------------------- *)
DecodeSpeedupCalculator(L, R, T, alpha) ==
    [L |-> L, R |-> R, T |-> T, alpha |-> alpha]

TpotOffloaded(self) ==
    LET io_time == Mul(Mul(self.alpha, self.L), self.R)
        compute_time == self.T
    IN  Max2(compute_time, io_time)

\* mutant of Slowdown: the ratio inverted (vanilla over offloaded)
Slowdown_Inverted(self) ==
    IF Gt(self.T, Zero) THEN Div(self.T, TpotOffloaded(self)) ELSE Inf

Slowdown(self) ==
    IF Gt(self.T, Zero) THEN Div(TpotOffloaded(self), self.T) ELSE Inf

DecodeAlphaStar(self) ==
    IF Gt(Mul(self.L, self.R), Zero)
    THEN Div(self.T, Mul(self.L, self.R))
    ELSE Inf

\* mutant of DecodeComputeBound: the boundary alpha = alpha* excluded
DecodeComputeBound_Strict(self) == Lt(self.alpha, DecodeAlphaStar(self))

\* self.alpha <= alpha_star
DecodeComputeBound(self) == Leq(self.alpha, DecodeAlphaStar(self))

\* analyze(): the dict it returns (ret), its locals before rounding, and
\* whether a division raised
analyze(self) ==
    LET tpot_vanilla == self.T
        tpot_offloaded == TpotOffloaded(self)
        slowdown == Slowdown(self)
        alpha_star == DecodeAlphaStar(self)
        compute == DecodeComputeBound(self)
    IN  [raised |-> ZeroDivisionError \in {slowdown, alpha_star},
         tpot_vanilla |-> tpot_vanilla,
         tpot_offloaded |-> tpot_offloaded,
         slowdown |-> slowdown,
         alpha_star |-> alpha_star,
         ret |-> [Phase |-> "DECODE",
                  L |-> self.L,
                  Regime |-> IF compute THEN "Compute-Bound (Safe)"
                                        ELSE "I/O-Bound (Laggy)",
                  Metric |-> "Slowdown",
                  Actual |-> IF compute THEN "No Latency Impact"
                                        ELSE "Slower",
                  Impact |-> IF compute THEN None ELSE Round2(slowdown),
                  TpotVanilla |-> Round2(tpot_vanilla),
                  TpotOffloaded |-> Round2(tpot_offloaded),
                  AlphaCurrent |-> Pct1(self.alpha),
                  AlphaStar |-> Pct1(alpha_star)]]

(* ------------------------------ state --------------------------------- *)
VARIABLES
    calc,      \* a PrefillSpeedupCalculator object
    metrics,   \* the dict calc.calculate_metrics() last returned
    result,    \* what analyze_speedup() last produced for calc
    dcalc,     \* a DecodeSpeedupCalculator object
    dresult,   \* what analyze() produced for dcalc
    prev,      \* the previous analysed PrefillSpeedupCalculator (same N, R, T, W)
    args,      \* the parsed command line of __main__
    files,     \* the metrics CSV found under --baseline-dir, or NoFile
    locals,    \* val_N, R, T, alpha and constants of __main__
    pc,        \* position of __main__
    calls,     \* the run_scenario calls made so far, in order
    exit_status

vars == <<calc, metrics, result, dcalc, dresult, prev, args, files, locals, pc, calls,
          exit_status>>
calcVars == <<calc, metrics, result, dcalc, dresult, prev>>
mainVars == <<args, files, locals, pc, calls, exit_status>>

NoResult == [done |-> FALSE]
NoObject == [constructed |-> FALSE]

Rates == {Rat(k, RateDen) : k \in 0..MaxRate}
Alphas == {Rat(k, AlphaDen) : k \in 0..AlphaDen}
Tokens == {Whole(n) : n \in 0..MaxN}

(* ---------------- the calculators used as a library -------------------- *)
MainIdle ==
    /\ args = NoObject /\ files = NoObject /\ locals = NoObject
    /\ pc = "idle" /\ calls = <<>> /\ exit_status = None

Init ==
    /\ \E N \in Tokens, R \in Rates, T \in Rates, alpha \in Alphas,
          W \in Rates \cup {None} :
          /\ calc = PrefillSpeedupCalculator(N, R, T, alpha, W)
          /\ dcalc = DecodeSpeedupCalculator(N, R, T, alpha)
    /\ metrics = NoResult
    /\ result = NoResult
    /\ dresult = NoResult
    /\ prev = NoObject
    /\ MainIdle

\* calc.calculate_metrics() called on its own
CalculateMetrics ==
    /\ result = NoResult
    /\ calc' = calculate_metrics(calc)
    /\ metrics' = MetricsDict(calc')
    /\ UNCHANGED <<result, dcalc, dresult, prev>>
    /\ UNCHANGED mainVars

\* calc.analyze_speedup()
AnalyzeSpeedup ==
    /\ result = NoResult
    /\ LET a == analyze_speedup(calc)
       IN  /\ calc' = a.self
           /\ metrics' = MetricsDict(a.self)
           /\ result' = [done |-> TRUE, raised |-> a.raised,
                         speedup_actual |-> a.speedup_actual,
                         speedup_theoretical |-> a.speedup_theoretical,
                         max_potential_gain |-> a.max_potential_gain,
                         ret |-> a.ret]
    /\ UNCHANGED <<dcalc, dresult, prev>>
    /\ UNCHANGED mainVars

\* dcalc.analyze()
Analyze ==
    /\ dresult = NoResult
    /\ dresult' = [done |-> TRUE] @@ analyze(dcalc)
    /\ UNCHANGED <<calc, metrics, result, dcalc, prev>>
    /\ UNCHANGED mainVars

\* a second PrefillSpeedupCalculator for the same N, R, T, W and another
\* offload fraction; the analysed one is kept in prev
NewAlpha ==
    /\ result # NoResult
    /\ prev = NoObject
    /\ \E alpha \in Alphas :
          calc' = PrefillSpeedupCalculator(calc.N, calc.R, calc.T, alpha, calc.W)
    /\ prev' = calc
    /\ metrics' = NoResult
    /\ result' = NoResult
    /\ UNCHANGED <<dcalc, dresult>>
    /\ UNCHANGED mainVars

Next == CalculateMetrics \/ AnalyzeSpeedup \/ Analyze \/ NewAlpha

Spec == Init /\ [][Next]_vars

(* ------------------- derive_constants_from_results -------------------- *)
\* fallback retrieval time per token (us)
R_estimate == 50

RECURSIVE SumOf(_, _)
SumOf(rows, col) ==
    IF rows = <<>> THEN Zero ELSE Add(Head(rows)[col], SumOf(Tail(rows), col))
\* pandas' Series.mean() of a non-empty column
Mean(rows, col) == Div(SumOf(rows, col), Whole(Len(rows)))
\* int(x) for x >= 0
Trunc(x) == Whole(x[1] \div x[2])
Micros(x) == Mul(x, Whole(1000000))

NoConstants == [N |-> None, T_prefill |-> None, T_decode |-> None, R |-> None]

\* mutant of derive_constants_from_results: a missing log yields zeros
derive_constants_from_results_ZeroDefaults(file) ==
    [raised |-> FALSE, warned |-> file = NoObject,
     constants |-> [N |-> Zero, T_prefill |-> Zero, T_decode |-> Zero,
                    R |-> Zero]]

\* file is the latest metrics_*.csv of baseline_dir (NoObject when there is
\* none).  The result: the constants dict (constants.get(k), None when k is
\* absent) and whether the function raised (int(nan) on a CSV without rows).
derive_constants_from_results(file) ==
    IF file = NoObject
    THEN [raised |-> FALSE, warned |-> TRUE, constants |-> NoConstants]
    ELSE IF file.rows = <<>>
    THEN [raised |-> TRUE, warned |-> FALSE, constants |-> NoConstants]
    ELSE LET N == Mean(file.rows, "prompt_len")
             ttft_base == Micros(Mean(file.rows, "ttft"))
             T_prefill == IF Gt(N, Zero) THEN Div(ttft_base, N) ELSE Zero
             T_decode == Micros(Mean(file.rows, "avg_itl"))
         IN  [raised |-> FALSE, warned |-> FALSE,
              constants |-> [N |-> Trunc(N), T_prefill |-> T_prefill,
                             T_decode |-> T_decode, R |-> Whole(R_estimate)]]

(* ----------------------------- run_scenario --------------------------- *)
\* one run_scenario call: its arguments, and what the calculator it builds
\* returned (a None argument makes the calculator raise TypeError)
run_scenario(name, N_or_L, R, T, alpha, mode) ==
    LET call == [name |-> name, mode |-> mode, N_or_L |-> N_or_L,
                 R |-> R, T |-> T, alpha |-> alpha]
    IN  IF None \in {N_or_L, R, T, alpha}
        THEN call @@ [raised |-> TRUE, result |-> NoResult]
        ELSE IF mode = "prefill"
        THEN LET a == analyze_speedup(
                          PrefillSpeedupCalculator(N_or_L, R, T, alpha, None))
             IN  call @@ [raised |-> a.raised, result |-> a.ret]
        ELSE LET d == analyze(DecodeSpeedupCalculator(N_or_L, R, T, alpha))
             IN  call @@ [raised |-> d.raised, result |-> d.ret]

\* the five built-in example scenarios, in order
DefaultScenarios ==
    << run_scenario("Scenario 1: A100 GPU (Compute Bound)",
                    Whole(2000), Whole(41), Whole(110), Rat(60, 100), "prefill"),
       run_scenario("Scenario 2: H100 GPU (I/O Bound)",
                    Whole(2000), Whole(50), Whole(100), Rat(90, 100), "prefill"),
       run_scenario("Decode 1: Short Ctx, Fast SSD",
                    Whole(1000), Rat(1, 10), Whole(200), Rat(8, 10), "decode"),
       run_scenario("Decode 2: Long Ctx (I/O Bound)",
                    Whole(8000), Rat(1, 10), Whole(200), Rat(8, 10), "decode"),
       run_scenario("Decode 3: NVMe Reality Check",
                    Whole(4000), Rat(5, 10), Whole(200), Rat(5, 10), "decode") >>

(* ------------------------------ __main__ ------------------------------ *)
\* Python truthiness of an optional number: None, 0 and 0.0 are false
Falsy(x) == x = None \/ x = Zero
\* Python truthiness of an optional directory name (never the empty string)
NoPath(x) == x = None

\* val_N = args.N if args.N is not None else args.L
AliasN(a) == IF a.N # None THEN a.N ELSE a.L

\* the condition under which the built-in examples run
UseDefaults(a) == Falsy(AliasN(a)) /\ Falsy(a.R) /\ NoPath(a.baseline_dir)

\* T picked from the derived constants for the mode
DerivedT(mode, constants) ==
    IF mode = "decode" THEN constants.T_decode ELSE constants.T_prefill

\* lines 249-272: the locals after the explicit arguments and, with
\* --baseline-dir, the derived constants have been taken
ResolveConstants(a, file) ==
    LET val_N == AliasN(a)
        alpha == IF a.alpha # None THEN a.alpha ELSE One
        explicit == [val_N |-> val_N, R |-> a.R, T |-> a.T, alpha |-> alpha,
                     derive_error |-> FALSE, warned |-> FALSE]
    IN  IF NoPath(a.baseline_dir) THEN explicit
        ELSE LET d == derive_constants_from_results(file)
                 c == d.constants
                 N2 == IF val_N = None THEN c.N ELSE val_N
                 R2 == IF a.R = None THEN c.R ELSE a.R
                 T2 == IF a.T = None THEN DerivedT(a.mode, c) ELSE a.T
             IN  IF d.raised
                 THEN [explicit EXCEPT !.derive_error = TRUE]
                 ELSE [val_N |-> N2, R |-> R2, T |-> T2, alpha |-> alpha,
                       \* formatting a None T or R with ":.2f" raises TypeError
                       derive_error |-> (T2 = None \/ R2 = None),
                       warned |-> d.warned]

\* mutant of InputsMissing: T left out of the check
InputsMissing_ForgetT(l) == None \in {l.val_N, l.R}

\* None in [val_N, R, T]
InputsMissing(l) == None \in {l.val_N, l.R, l.T}

Modes == {"prefill", "decode", "both"}
ArgTokens == {Whole(n) : n \in 0..MaxArgN}
ArgRates == {Whole(n) : n \in 0..MaxArgRate}
ArgAlphas == {Rat(k, ArgAlphaDen) : k \in 0..(ArgAlphaDen + 1)}
BaselineDir == <<"results", "baseline">>
OffloadDir == <<"results", "offload">>

\* rows (prompt_len in tokens, ttft and avg_itl in seconds, here whole
\* milliseconds)
CsvRows ==
    {[prompt_len |-> Whole(p), ttft |-> Rat(t, 1000), avg_itl |-> Rat(1, 1000)] :
        p \in {0, MaxPromptLen}, t \in {MaxPromptLen + 1}}
RECURSIVE SeqsUpTo(_, _)
SeqsUpTo(S, n) ==
    IF n = 0 THEN {<<>>}
    ELSE LET shorter == SeqsUpTo(S, n - 1)
         IN  shorter \cup {Append(q, x) : q \in shorter, x \in S}
CsvFiles == {[rows |-> q] : q \in SeqsUpTo(CsvRows, MaxRows)}

CalcIdle ==
    /\ calc = NoObject /\ metrics = NoResult /\ result = NoResult
    /\ dcalc = NoObject /\ dresult = NoResult /\ prev = NoObject

\* the state after parse_args(), with the files the run will find
InitMain ==
    /\ \E mode \in Modes, N \in ArgTokens \cup {None},
          L \in {None, Whole(MaxArgN)},
          R \in ArgRates \cup {None}, T \in ArgRates \cup {None},
          alpha \in ArgAlphas \cup {None},
          baseline_dir \in {None, BaselineDir},
          offload_dir \in {None, OffloadDir},
          file \in CsvFiles \cup {NoObject} :
          /\ baseline_dir = None => file = NoObject
          /\ file = NoObject => offload_dir = None
          /\ args = [mode |-> mode, N |-> N, L |-> L, R |-> R, T |-> T,
                     alpha |-> alpha, baseline_dir |-> baseline_dir,
                     offload_dir |-> offload_dir]
          /\ files = file
    /\ locals = NoObject
    /\ pc = "start"
    /\ calls = <<>>
    /\ exit_status = None
    /\ CalcIdle

\* lines 235-245
RunDefaultScenarios ==
    /\ pc = "start"
    /\ UseDefaults(args)
    /\ calls' = DefaultScenarios
    /\ pc' = "done"
    /\ exit_status' = Zero
    /\ UNCHANGED <<args, files, locals>>
    /\ UNCHANGED calcVars

\* lines 247-272
Resolve ==
    /\ pc = "start"
    /\ ~UseDefaults(args)
    /\ locals' = ResolveConstants(args, files)
    /\ pc' = "check"
    /\ UNCHANGED <<args, files, calls, exit_status>>
    /\ UNCHANGED calcVars

\* lines 275-277
ConfigError ==
    /\ pc = "check"
    /\ InputsMissing(locals)
    /\ exit_status' = One
    /\ pc' = "done"
    /\ UNCHANGED <<args, files, locals, calls>>
    /\ UNCHANGED calcVars

\* lines 279-280
CustomPrefill ==
    /\ pc = "check"
    /\ ~InputsMissing(locals)
    /\ args.mode \in {"prefill", "both"}
    /\ LET call == run_scenario("Custom Prefill Analysis", locals.val_N,
                                locals.R, locals.T, locals.alpha, "prefill")
       IN  calls' = Append(calls, call)
    /\ IF calls'[Len(calls')].raised
       THEN pc' = "done" /\ exit_status' = One  \* uncaught exception
       ELSE IF args.mode = "both"
       THEN pc' = "decode" /\ UNCHANGED exit_status
       ELSE pc' = "done" /\ exit_status' = Zero
    /\ UNCHANGED <<args, files, locals>>
    /\ UNCHANGED calcVars

\* lines 282-283
CustomDecode ==
    /\ \/ pc = "decode"
       \/ pc = "check" /\ ~InputsMissing(locals) /\ args.mode = "decode"
    /\ LET call == run_scenario("Custom Decode Analysis", locals.val_N,
                                locals.R, locals.T, locals.alpha, "decode")
       IN  calls' = Append(calls, call)
    /\ exit_status' = IF calls'[Len(calls')].raised THEN One ELSE Zero
    /\ pc' = "done"
    /\ UNCHANGED <<args, files, locals>>
    /\ UNCHANGED calcVars

NextMain ==
    RunDefaultScenarios \/ Resolve \/ ConfigError \/ CustomPrefill \/ CustomDecode

SpecRunner == InitMain /\ [][NextMain]_vars

(* ====================== properties of the calculators ================== *)
\* the quantities the claims are stated in, written from the inputs alone
\* (a ratio with a zero denominator is read as +inf)
Ratio(a, b) == IF b = Zero THEN Inf ELSE Div(a, b)
StatedE(c) == Ratio(c.T, c.R)
StatedAlphaStar(c) ==
    IF StatedE(c) = Inf THEN One ELSE Div(StatedE(c), Add(One, StatedE(c)))
StatedDecodeAlphaStar(c) ==
    IF Gt(Mul(c.L, c.R), Zero) THEN Div(c.T, Mul(c.L, c.R)) ELSE Inf
LegalAlpha(a) == Leq(Zero, a) /\ Leq(a, One)

\* C1: analyze_speedup classifies alpha <= alpha* as Compute-Bound with
\* theoretical ratio 1/(1-alpha) (+inf at alpha = 1) and alpha > alpha* as
\* I/O-Bound with theoretical ratio E/alpha; the returned value is that
\* ratio rounded to two decimals.
C1_RegimeAndTheoretical ==
    result.done =>
        IF Leq(calc.alpha, StatedAlphaStar(calc))
        THEN /\ result.ret.Regime = "Compute-Bound"
             /\ result.speedup_theoretical = Ratio(One, Sub(One, calc.alpha))
             /\ result.ret.Theoretical = Round2(Ratio(One, Sub(One, calc.alpha)))
        ELSE /\ result.ret.Regime = "I/O-Bound"
             /\ result.speedup_theoretical = Div(StatedE(calc), calc.alpha)
             /\ result.ret.Theoretical = Round2(Div(StatedE(calc), calc.alpha))

\* an I/O-bound analysis after a compute-bound analysis of the same N, R, T, W
\* at a positive offload fraction
C1_Witness ==
    /\ result.done /\ result.ret.Regime = "I/O-Bound"
    /\ Gt(calc.alpha, calc.alpha_star)
    /\ prev # NoObject
    /\ Leq(prev.alpha, prev.alpha_star) /\ Gt(prev.alpha, Zero)

\* C2: analyze classifies alpha <= alpha* as Compute-Bound (Safe) with no
\* latency impact (tpot_offloaded = tpot_vanilla = T) and alpha > alpha* as
\* I/O-Bound (Laggy) with tpot_offloaded = alpha*L*R > T.
C2_DecodeRegime ==
    dresult.done =>
        IF Leq(dcalc.alpha, StatedDecodeAlphaStar(dcalc))
        THEN /\ dresult.ret.Regime = "Compute-Bound (Safe)"
             /\ dresult.ret.Actual = "No Latency Impact"
             /\ dresult.tpot_offloaded = dcalc.T
             /\ dresult.tpot_vanilla = dcalc.T
        ELSE /\ dresult.ret.Regime = "I/O-Bound (Laggy)"
             /\ dresult.tpot_offloaded = Mul(Mul(dcalc.alpha, dcalc.L), dcalc.R)
             /\ Gt(dresult.tpot_offloaded, dcalc.T)

\* a laggy decode analysis with a positive compute time
C2_Witness ==
    /\ dresult.done /\ dresult.ret.Regime = "I/O-Bound (Laggy)"
    /\ Gt(dcalc.T, Zero)

\* C3: on legal inputs no division of calculate_metrics, analyze_speedup or
\* analyze is reached with a zero denominator, and every number produced is
\* finite or +inf.
Numeric(x) == x # ZeroDivisionError /\ x # None
C3_NeverFaults ==
    /\ metrics.done => Numeric(metrics.E) /\ Numeric(metrics.alpha_star)
    /\ result.done =>
         /\ ~result.raised
         /\ Numeric(result.speedup_actual) /\ Numeric(result.speedup_theoretical)
         /\ Numeric(result.ret.Actual) /\ Numeric(result.ret.Theoretical)
    /\ dresult.done =>
         /\ ~dresult.raised
         /\ Numeric(dresult.slowdown) /\ Numeric(dresult.alpha_star)
         /\ Numeric(dresult.tpot_offloaded)

\* both analyses done on the fully degenerate input R = 0, T = 0, N = 0,
\* alpha = 1
C3_Witness ==
    /\ result.done /\ dresult.done
    /\ calc.R = Zero /\ calc.T = Zero /\ calc.N = Zero /\ calc.alpha = One
    /\ dcalc.R = Zero /\ dcalc.T = Zero /\ dcalc.L = Zero /\ dcalc.alpha = One

\* C4 as stated: with alpha = 0, ttft_offloaded = N*T = ttft_vanilla and the
\* speedup is exactly 1.0, and tpot_offloaded = T and the slowdown is exactly
\* 1.0, for every legal N/L, R, T, W.
C4_Original ==
    /\ result.done /\ calc.alpha = Zero =>
         /\ calc.ttft_offloaded = Mul(calc.N, calc.T)
         /\ calc.ttft_offloaded = calc.ttft_vanilla
         /\ result.speedup_actual = One
    /\ dresult.done /\ dcalc.alpha = Zero =>
         /\ dresult.tpot_offloaded = dcalc.T
         /\ dresult.slowdown = One

\* C4 amended: with alpha = 0, ttft_offloaded = N*max(T, W), which is
\* N*T = ttft_vanilla when W <= T; the speedup is exactly 1.0 when W <= T
\* and N*T > 0, and +inf when N*max(T, W) = 0.  In decode tpot_offloaded = T,
\* and the slowdown is exactly 1.0 when T > 0 and +inf when T = 0.
C4_AlphaZero ==
    /\ result.done /\ calc.alpha = Zero =>
         /\ calc.ttft_offloaded = Mul(calc.N, Max2(calc.T, calc.W))
         /\ Leq(calc.W, calc.T) =>
              /\ calc.ttft_offloaded = Mul(calc.N, calc.T)
              /\ calc.ttft_offloaded = calc.ttft_vanilla
              /\ Gt(Mul(calc.N, calc.T), Zero) =>
                   result.speedup_actual = One /\ result.ret.Actual = One
         /\ calc.ttft_offloaded = Zero => result.speedup_actual = Inf
    /\ dresult.done /\ dcalc.alpha = Zero =>
         /\ dresult.tpot_offloaded = dcalc.T
         /\ Gt(dcalc.T, Zero) => dresult.slowdown = One
         /\ dcalc.T = Zero => dresult.slowdown = Inf

\* both phases analysed at alpha = 0 with a positive write cost W <= T and
\* N*T > 0
C4_Witness ==
    /\ result.done /\ dresult.done
    /\ calc.alpha = Zero /\ dcalc.alpha = Zero
    /\ Gt(calc.W, Zero) /\ Leq(calc.W, calc.T) /\ Gt(calc.N, Zero)
    /\ result.speedup_actual = One /\ dresult.slowdown = One

\* two analysed prefill calculators over the same N, R, T, W, ordered by alpha
BothAnalysed == prev # NoObject /\ result.done
Lower == IF Leq(prev.alpha, calc.alpha) THEN prev ELSE calc
Upper == IF Leq(prev.alpha, calc.alpha) THEN calc ELSE prev
IOBound(c) == Gt(c.alpha, StatedAlphaStar(c))

\* C5 as stated: for a1 <= a2 both I/O-bound ttft_offloaded(a1) <=
\* ttft_offloaded(a2), and for a1 <= a2 both compute-bound
\* ttft_offloaded(a1) >= ttft_offloaded(a2), for every N, R, T, W.
C5_Original ==
    BothAnalysed =>
        /\ IOBound(Lower) /\ IOBound(Upper) =>
             Leq(Lower.ttft_offloaded, Upper.ttft_offloaded)
        /\ ~IOBound(Lower) /\ ~IOBound(Upper) =>
             Leq(Upper.ttft_offloaded, Lower.ttft_offloaded)

\* C5 amended: the I/O-bound half holds when W <= T (in particular for the
\* default W = 0); the compute-bound half holds for every W.
C5_Monotone ==
    BothAnalysed =>
        /\ IOBound(Lower) /\ IOBound(Upper) /\ Leq(calc.W, calc.T) =>
             Leq(Lower.ttft_offloaded, Upper.ttft_offloaded)
        /\ ~IOBound(Lower) /\ ~IOBound(Upper) =>
             Leq(Upper.ttft_offloaded, Lower.ttft_offloaded)

\* two I/O-bound analyses at different fractions with 0 < W <= T whose
\* ttft_offloaded strictly grows
C5_Witness ==
    /\ BothAnalysed
    /\ IOBound(Lower) /\ IOBound(Upper)
    /\ Gt(calc.W, Zero) /\ Leq(calc.W, calc.T)
    /\ Lt(Lower.ttft_offloaded, Upper.ttft_offloaded)

\* C6: the alpha_star calculate_metrics computes lies in [0,1]; it is 1 when
\* R = 0, 0 when T = 0 and R > 0, and strictly between when both are positive.
C6_AlphaStarRange ==
    metrics.done =>
        /\ Leq(Zero, metrics.alpha_star) /\ Leq(metrics.alpha_star, One)
        /\ calc.R = Zero => metrics.alpha_star = One
        /\ calc.T = Zero /\ Gt(calc.R, Zero) => metrics.alpha_star = Zero
        /\ Gt(calc.T, Zero) /\ Gt(calc.R, Zero) =>
             Lt(Zero, metrics.alpha_star) /\ Lt(metrics.alpha_star, One)

\* calculate_metrics has run with T > R > 0 (E > 1)
C6_Witness ==
    /\ metrics.done
    /\ Gt(calc.R, Zero) /\ Gt(calc.T, calc.R)
    /\ Lt(metrics.alpha_star, One)

\* C7 as stated: whenever T = 0, for any R >= 0, E = 0 and alpha* = 0 and
\* every alpha > 0 is I/O-Bound.
C7_Original ==
    /\ metrics.done /\ calc.T = Zero =>
         metrics.E = Zero /\ metrics.alpha_star = Zero
    /\ result.done /\ calc.T = Zero /\ Gt(calc.alpha, Zero) =>
         result.ret.Regime = "I/O-Bound"

\* C7 amended: whenever T = 0 and R > 0, E = 0 and alpha* = 0 and every
\* alpha > 0 is I/O-Bound.
C7_ZeroCompute ==
    /\ metrics.done /\ calc.T = Zero /\ Gt(calc.R, Zero) =>
         metrics.E = Zero /\ metrics.alpha_star = Zero
    /\ result.done /\ calc.T = Zero /\ Gt(calc.R, Zero) /\ Gt(calc.alpha, Zero) =>
         result.ret.Regime = "I/O-Bound"

\* an analysis with T = 0, R > 0 and alpha > 0
C7_Witness ==
    /\ result.done /\ calc.T = Zero /\ Gt(calc.R, Zero) /\ Gt(calc.alpha, Zero)
    /\ result.ret.Regime = "I/O-Bound"

(* ========================= properties of the runner ==================== *)
\* what the baseline log yields for this run: nothing without --baseline-dir,
\* without a metrics CSV, or when the derivation raised
DerivedHere ==
    IF args.baseline_dir = None THEN NoConstants
    ELSE derive_constants_from_results(files).constants
ExplicitN == IF args.N # None THEN args.N ELSE args.L
Defined(explicit, derived) == explicit # None \/ derived # None
AllDefined ==
    /\ Defined(ExplicitN, DerivedHere.N)
    /\ Defined(args.R, DerivedHere.R)
    /\ Defined(args.T, DerivedHere.T_prefill)
AllExplicit == ExplicitN # None /\ args.R # None /\ args.T # None
RanDefaults == pc = "done" /\ locals = NoObject
RanCustom == pc = "done" /\ locals # NoObject

\* C8: each of N/L, R, T passed to the models is the explicit argument when
\* one is given and a log-derived value otherwise; the built-in scenarios run
\* only when some constant has neither an explicit nor a derived value; an
\* invocation that supplies N (or L), R and T analyses exactly those values.
C8_Precedence ==
    /\ RanDefaults => ~AllDefined
    /\ RanCustom =>
         \A i \in DOMAIN calls :
            /\ calls[i].N_or_L =
                 IF ExplicitN # None THEN ExplicitN ELSE DerivedHere.N
            /\ calls[i].R = IF args.R # None THEN args.R ELSE DerivedHere.R
            /\ IF args.T # None THEN calls[i].T = args.T
               ELSE calls[i].T \in {DerivedHere.T_prefill, DerivedHere.T_decode}
    /\ pc = "done" /\ AllExplicit =>
         /\ calls # <<>>
         /\ \A i \in DOMAIN calls :
              /\ calls[i].N_or_L = ExplicitN
              /\ calls[i].R = args.R
              /\ calls[i].T = args.T

\* C9: when the explicit arguments and the baseline log leave any of N/L, R,
\* T undefined the runner exits with status 1 without invoking a model;
\* when all three are defined it analyses and exits with status 0, and an
\* unspecified alpha is analysed as 1.0.
C9_ConfigError ==
    locals # NoObject =>
        /\ ~AllDefined =>
             /\ calls = <<>>
             /\ pc = "done" => exit_status = One
        /\ AllDefined /\ pc = "done" =>
             /\ exit_status = Zero
             /\ calls # <<>>
             /\ \A i \in DOMAIN calls : ~calls[i].raised
             /\ args.alpha = None => \A i \in DOMAIN calls : calls[i].alpha = One

\* a configuration error although --baseline-dir, --R and --alpha were given
C9_Witness ==
    /\ RanCustom /\ exit_status = One /\ calls = <<>>
    /\ args.baseline_dir # None /\ args.R # None /\ args.alpha # None
    /\ ~AllDefined

\* C10: every alpha passed to a calculator by the runner lies in [0,1].
C10_AlphaClamped ==
    \A i \in DOMAIN calls : LegalAlpha(calls[i].alpha)

\* a run with --baseline-dir whose directory holds no metrics CSV
NoBaselineLog == args.baseline_dir # None /\ files = NoObject

\* C11: when the baseline directory holds no metrics log the derivation
\* warns and yields nothing without raising, so val_N, R and T stay exactly
\* the explicit arguments (None where none was given, never zero); the run
\* analyses the explicit N, R, T when all three were given and otherwise
\* ends in the configuration error.
C11_MissingLog ==
    NoBaselineLog /\ locals # NoObject =>
        /\ locals.warned
        /\ locals.val_N = ExplicitN /\ locals.R = args.R /\ locals.T = args.T
        /\ AllExplicit => ~locals.derive_error
        /\ pc = "done" =>
             IF AllExplicit
             THEN /\ exit_status = Zero
                  /\ calls # <<>>
                  /\ \A i \in DOMAIN calls :
                       /\ calls[i].N_or_L = ExplicitN
                       /\ calls[i].R = args.R
                       /\ calls[i].T = args.T
             ELSE exit_status = One /\ calls = <<>>

\* a finished analysis of explicit N, R, T although the baseline directory
\* named on the command line holds no metrics CSV
C11_Witness ==
    /\ RanCustom /\ NoBaselineLog /\ AllExplicit
    /\ exit_status = Zero /\ calls # <<>>

\* the calculator run_scenario built for a recorded call
PrefillOf(c) == PrefillSpeedupCalculator(c.N_or_L, c.R, c.T, c.alpha, None)
DecodeOf(c) == DecodeSpeedupCalculator(c.N_or_L, c.R, c.T, c.alpha)
Inputs(c) == <<c.mode, c.N_or_L, c.R, c.T, c.alpha>>

\* C12: the built-in scenarios give the stated results: prefill
\* (2000, 41, 110, 0.60) is Compute-Bound with theoretical ratio 2.5; prefill
\* (2000, 50, 100, 0.90) is I/O-Bound with E = 2 and theoretical ratio
\* E/alpha = 20/9, returned as 2.22; decode (8000, 0.1, 200, 0.8) is
\* I/O-Bound with alpha* = 0.25, tpot_offloaded = 640 and slowdown 3.2;
\* decode (1000, 0.1, 200, 0.8) is Compute-Bound with alpha* = 2.0 and
\* slowdown 1.0.
C12_ReferenceScenarios ==
    RanDefaults =>
        /\ Len(calls) = 5
        /\ Inputs(calls[1]) =
             <<"prefill", Whole(2000), Whole(41), Whole(110), Rat(6, 10)>>
        /\ calls[1].result.Regime = "Compute-Bound"
        /\ calls[1].result.Theoretical = Rat(25, 10)
        /\ Inputs(calls[2]) =
             <<"prefill", Whole(2000), Whole(50), Whole(100), Rat(9, 10)>>
        /\ calls[2].result.Regime = "I/O-Bound"
        /\ EfficiencyRatio(PrefillOf(calls[2])) = Whole(2)
        /\ analyze_speedup(PrefillOf(calls[2])).speedup_theoretical = Rat(20, 9)
        /\ calls[2].result.Theoretical = Rat(222, 100)
        /\ Inputs(calls[4]) =
             <<"decode", Whole(8000), Rat(1, 10), Whole(200), Rat(8, 10)>>
        /\ calls[4].result.Regime = "I/O-Bound (Laggy)"
        /\ DecodeAlphaStar(DecodeOf(calls[4])) = Rat(25, 100)
        /\ calls[4].result.TpotOffloaded = Whole(640)
        /\ Slowdown(DecodeOf(calls[4])) = Rat(32, 10)
        /\ calls[4].result.Impact = Rat(32, 10)
        /\ Inputs(calls[3]) =
             <<"decode", Whole(1000), Rat(1, 10), Whole(200), Rat(8, 10)>>
        /\ calls[3].result.Regime = "Compute-Bound (Safe)"
        /\ DecodeAlphaStar(DecodeOf(calls[3])) = Whole(2)
        /\ Slowdown(DecodeOf(calls[3])) = One

\* the built-in scenarios have run and the second returned 2.22
C12_Witness ==
    /\ RanDefaults /\ Len(calls) = 5
    /\ calls[2].result.Theoretical = Rat(222, 100)
    /\ \A i \in DOMAIN calls : ~calls[i].raised

(* ================= further properties of the prefill model ============= *)
PositiveNoWrite(c) ==
    Gt(c.N, Zero) /\ Gt(c.R, Zero) /\ Gt(c.T, Zero) /\ c.W = Zero

\* C13: for N > 0, R > 0, T > 0 and W = 0 the speedup never exceeds E + 1,
\* equals E + 1 at alpha = alpha*, and E + 1 is the potential speedup the
\* I/O-Bound recommendation quotes.
C13_PotentialSpeedup ==
    result.done /\ PositiveNoWrite(calc) =>
        /\ Leq(result.speedup_actual, Add(StatedE(calc), One))
        /\ calc.alpha = StatedAlphaStar(calc) =>
             result.speedup_actual = Add(StatedE(calc), One)
        /\ result.ret.Regime = "I/O-Bound" =>
             /\ result.max_potential_gain = Add(StatedE(calc), One)
             /\ prev # NoObject /\ prev.alpha = prev.alpha_star =>
                  Div(prev.ttft_vanilla, prev.ttft_offloaded)
                      = result.max_potential_gain

\* an I/O-bound analysis after an analysis of the same N, R, T at the
\* critical fraction
C13_Witness ==
    /\ result.done /\ PositiveNoWrite(calc)
    /\ result.ret.Regime = "I/O-Bound"
    /\ prev # NoObject /\ prev.alpha = prev.alpha_star
    /\ Div(prev.ttft_vanilla, prev.ttft_offloaded) = result.max_potential_gain

(* ==================== the derived T and the phase ====================== *)
\* T was taken from the baseline log
TDerived == args.T = None /\ DerivedHere.T_decode # None

\* C14: when T is derived from the baseline log, every decode analysis uses
\* T_decode and every prefill analysis uses T_prefill.
C14_PhaseT ==
    TDerived =>
        \A i \in DOMAIN calls :
            calls[i].T = IF calls[i].mode = "decode"
                         THEN DerivedHere.T_decode
                         ELSE DerivedHere.T_prefill

\* the analysis of the same N, R, T, alpha without a write cost (W = None)
NoWriteAnalysis ==
    analyze_speedup(
        PrefillSpeedupCalculator(calc.N, calc.R, calc.T, calc.alpha, None))

\* C15: whenever ttft_offloaded > 0 the actual ratio is at most the
\* theoretical ratio, with equality when W <= T; the regime, alpha* and the
\* theoretical ratio are those of the analysis without write cost, and a
\* write cost above T never raises the actual ratio.
C15_TheoreticalBound ==
    result.done =>
        /\ Gt(calc.ttft_offloaded, Zero) =>
             /\ Leq(result.speedup_actual, result.speedup_theoretical)
             /\ Leq(result.ret.Actual, result.ret.Theoretical)
             /\ Leq(calc.W, calc.T) =>
                  result.speedup_actual = result.speedup_theoretical
        /\ result.ret.Regime = NoWriteAnalysis.ret.Regime
        /\ calc.alpha_star = NoWriteAnalysis.self.alpha_star
        /\ result.speedup_theoretical = NoWriteAnalysis.speedup_theoretical
        /\ Gt(calc.W, calc.T) =>
             Leq(result.speedup_actual, NoWriteAnalysis.speedup_actual)

\* an I/O-bound analysis whose write cost W > T > 0 keeps the actual ratio
\* strictly below the theoretical one
C15_Witness ==
    /\ result.done /\ result.ret.Regime = "I/O-Bound"
    /\ Gt(calc.W, calc.T) /\ Gt(calc.T, Zero)
    /\ Gt(calc.ttft_offloaded, Zero)
    /\ Lt(result.speedup_actual, result.speedup_theoretical)

=============================================================================
